---- MODULE Spec2Model ----
(***************************************************************************)
(* The Dictionary component: the word-lookup controller (searchWord and    *)
(* the continuation of its fetch) and the favorites store (load at mount,  *)
(* toggleFavorite, removeFavorite, the list's "go to" link), in its two    *)
(* lineages: the sessionStorage one, whose finally block also resets the   *)
(* query, and the localStorage one.                                        *)
(*                                                                         *)
(* Strings the code only compares or concatenates are sequences of         *)
(* one-character strings; a JSON text is a sequence of tokens, each token  *)
(* a sequence of one string.                                               *)
(***************************************************************************)
EXTENDS Integers, Sequences, FiniteSets, TLC

VARIABLES lineage, mounted, word, definition, error, loading, favorites,
          storage, requests, theme, last

vars == <<lineage, mounted, word, definition, error, loading, favorites,
          storage, requests, theme, last>>

\* ---------------------------------------------------------------- bounds

\* most requests outstanding at once in the model
MaxInFlight == 2
\* longest array found in storage at startup
MaxStored == 2

\* ------------------------------------------------------------ the values

WhiteSpace == {" "}

RECURSIVE SeqsUpTo(_, _)
SeqsUpTo(S, n) ==
    IF n = 0 THEN {<<>>}
    ELSE LET shorter == SeqsUpTo(S, n - 1)
         IN shorter \cup {Append(s, c) : s \in {t \in shorter : Len(t) = n - 1}, c \in S}

\* what the user can leave in the input field: '', ' ', 'a'
Queries == {<<>>, <<" ">>, <<"a">>}

Lineages == {"sessionStorage", "localStorage"}

\* useState(null) for definition; a Definition document is kind "doc"
NullDefinition == [kind |-> "null", word |-> <<>>, body |-> <<>>]

\* data[0] of an array without an element 0
UndefinedDefinition == [kind |-> "undefined", word |-> <<>>, body |-> <<>>]

Doc(w, b) == [kind |-> "doc", word |-> w, body |-> b]

\* the documents of responses and of stored entries: two for "a", one for "A"
Docs == {Doc(<<"a">>, <<"x">>), Doc(<<"a">>, <<"y">>), Doc(<<"A">>, <<"x">>)}

\* the JSON arrays a response body parses to: none or two documents
Bodies == {<<>>, <<Doc(<<"A">>, <<"x">>), Doc(<<"a">>, <<"y">>)>>}

\* what the body of a response parses to, by response.ok: an array of
\* documents, or the error document, of which data[0] is undefined too
BodiesOf(ok) == IF ok THEN Bodies ELSE {<<>>}

\* err.message of a rejected fetch, and of a response.json() that throws
NetworkMessages == {"Failed to fetch"}

ParseMessages == {"Unexpected token"}

EmptyQueryError == <<"Please enter a word to search">>

NotFoundError == <<"Word not found">>

TransportError(msg) == <<"An error occurred: ", msg>>

NoError == <<>>

Entry(w, d) == [word |-> w, definition |-> d]

\* the body of a document that has no phonetics array, as the stored
\* { word: 'test', definition: { word: 'test', meanings: [] } }
NoPhonetics == <<>>

\* the entries found persisted at startup: two for the same word
StoredEntries == {Entry(<<"a">>, Doc(<<"a">>, <<"x">>)), Entry(<<"a">>, Doc(<<"a">>, <<"y">>))}

\* ------------------------------------------------- library functions used

\* String.prototype.trim: strip the whitespace at both ends
RECURSIVE TrimStart(_)
TrimStart(s) ==
    IF s # <<>> /\ Head(s) \in WhiteSpace THEN TrimStart(Tail(s)) ELSE s

RECURSIVE TrimEnd(_)
TrimEnd(s) ==
    IF s # <<>> /\ s[Len(s)] \in WhiteSpace THEN TrimEnd(SubSeq(s, 1, Len(s) - 1)) ELSE s

Trim(s) == TrimEnd(TrimStart(s))

LowerChar(c) == IF c = "A" THEN "a" ELSE c

Lower(s) == [i \in 1..Len(s) |-> LowerChar(s[i])]

\* a membership test that ignores case
Some_IgnoreCase(favs, w) == \E i \in 1..Len(favs) : Lower(favs[i].word) = Lower(w)

\* favorites.some(fav => fav.word === word)
Some(favs, w) == \E i \in 1..Len(favs) : favs[i].word = w

\* favorites.filter(fav => fav.word !== word)
RECURSIVE Filter(_, _)
Filter(favs, w) ==
    IF favs = <<>> THEN <<>>
    ELSE IF Head(favs).word # w THEN <<Head(favs)>> \o Filter(Tail(favs), w)
    ELSE Filter(Tail(favs), w)

Tok(s) == <<s>>

\* JSON.stringify of a Definition document and of a FavoriteEntry
StringifyDoc(d) ==
    <<Tok("{"), Tok("word"), Tok(":"), d.word, Tok(","),
      Tok("body"), Tok(":"), d.body, Tok("}")>>

StringifyEntry(e) ==
    <<Tok("{"), Tok("word"), Tok(":"), e.word, Tok(","),
      Tok("definition"), Tok(":")>> \o StringifyDoc(e.definition) \o <<Tok("}")>>

RECURSIVE StringifyEntries(_)
StringifyEntries(favs) ==
    IF favs = <<>> THEN <<>>
    ELSE IF Len(favs) = 1 THEN StringifyEntry(Head(favs))
    ELSE StringifyEntry(Head(favs)) \o <<Tok(",")>> \o StringifyEntries(Tail(favs))

\* JSON.stringify(newFavorites)
JSONstringify(favs) == <<Tok("[")>> \o StringifyEntries(favs) \o <<Tok("]")>>

\* the number of tokens of one serialized entry
EntryTokens == Len(StringifyEntry(Entry(<<>>, NullDefinition)))

\* JSON.parse of a serialized array of entries: the tokens after "[" up to "]"
RECURSIVE ParseEntries(_)
ParseEntries(toks) ==
    IF Head(toks) = Tok("]") THEN <<>>
    ELSE LET e == Entry(toks[4], Doc(toks[11], toks[15]))
             rest == SubSeq(toks, EntryTokens + 1, Len(toks))
         IN <<e>> \o ParseEntries(IF Head(rest) = Tok(",") THEN Tail(rest) ELSE rest)

JSONparse(text) == ParseEntries(Tail(text))

\* the slot 'favorites' of the storage: absent, or a string
NoItem == [present |-> FALSE, text |-> <<>>]

Item(text) == [present |-> TRUE, text |-> text]

\* storage.getItem('favorites') || '[]': null and '' are both falsy
GetItemOrEmptyArray(st) ==
    IF ~st.present \/ st.text = <<>> THEN JSONstringify(<<>>) ELSE st.text

\* the arrays found persisted at startup
StoredArrays == SeqsUpTo(StoredEntries, MaxStored)

InitialStorage == {NoItem, Item(<<>>)} \cup {Item(JSONstringify(a)) : a \in StoredArrays}

\* a stored array whose entry holds a document without phonetics
ShapelessArrays == {<<Entry(<<"a">>, Doc(<<"a">>, NoPhonetics))>>}

\* ---------------------------------------------------------------- state

\* a lookup whose fetch has not settled (pc "fetch"), or whose response has
\* arrived and whose body is being read (pc "json"); newest records that no
\* lookup was dispatched after it
Request(pc) == [pc |-> pc, newest |-> TRUE]

\* the handler that ran last, with its inputs and what it found:
\*   nreq          the number of outstanding requests the handler found
\*   pos           the place, in dispatch order among them, of the request
\*                 that completed, and newest, its mark
\*   ok, data, msg the response's status and body, or the exception's message
\*   arg, def      the word and the definition a favorites handler was given
\*   before        the favorites collection the handler found
\*   stored        the storage slot a handler that does not write it found
\*   lookup        the query, pending flag, error and definition a handler
\*                 of the favorites or of the theme found
\*   twice, orig   whether the handler before it was toggleFavorite of the same
\*                 word, and the collection that one found
Last(op) ==
    [op |-> op, nreq |-> 0, pos |-> 0, newest |-> FALSE, ok |-> FALSE,
     data |-> <<>>, msg |-> "", arg |-> <<>>, def |-> NullDefinition,
     before |-> <<>>, stored |-> NoItem, lookup |-> <<>>, twice |-> FALSE,
     orig |-> <<>>]

\* the query, pending flag, error and definition
LookupState == <<word, loading, error, definition>>

\* the record of a favorites mutation of word w
LastMutation(op, w, found, prev) ==
    LET twice == prev.op = "toggleFavorite" /\ prev.arg = w
    IN [Last(op) EXCEPT !.arg = w, !.before = found, !.twice = twice,
                        !.orig = IF twice THEN prev.before ELSE <<>>,
                        !.lookup = LookupState]

\* the record of a step of searchWord, which leaves the favorites alone
LastLookup(op) ==
    [Last(op) EXCEPT !.nreq = Len(requests), !.before = favorites,
                     !.stored = storage]

\* the record of the completion of the i-th outstanding request
LastCompletion(op, i) ==
    [LastLookup(op) EXCEPT !.pos = i, !.newest = requests[i].newest]

Init ==
    /\ lineage \in Lineages
    /\ mounted = FALSE
    /\ word = <<>>
    /\ definition = NullDefinition
    /\ error = NoError
    /\ loading = FALSE
    /\ favorites = <<>>
    /\ storage \in InitialStorage
    /\ requests = <<>>
    /\ theme = "system"
    /\ last = Last("init")

\* ------------------------------------------------------- favorites store

\* the entries of favs, each word's later entries dropped
RECURSIVE Dedupe(_)
Dedupe(favs) ==
    IF favs = <<>> THEN <<>>
    ELSE LET front == Dedupe(SubSeq(favs, 1, Len(favs) - 1))
             e == favs[Len(favs)]
         IN IF \E i \in 1..Len(front) : front[i].word = e.word THEN front
            ELSE Append(front, e)

\* a load that keeps one entry per word
LoadFavorites_Dedupe(st) == Dedupe(JSONparse(GetItemOrEmptyArray(st)))

\* useEffect(() => setFavorites(JSON.parse(getItem('favorites') || '[]')), [])
LoadFavorites(st) == JSONparse(GetItemOrEmptyArray(st))

\* the effect runs once, after the first render
Mount ==
    /\ ~mounted
    /\ last.op = "init"
    /\ mounted' = TRUE
    /\ favorites' = LoadFavorites(storage)
    /\ last' = Last("mount")
    /\ UNCHANGED <<theme, lineage, word, definition, error, loading, storage, requests>>

\* a toggle that puts the new entry first
ToggledFavorites_Prepend(favs, w, def) ==
    IF Some(favs, w) THEN Filter(favs, w) ELSE <<Entry(w, def)>> \o favs

\* newFavorites of toggleFavorite(word, def)
ToggledFavorites(favs, w, def) ==
    IF Some(favs, w) THEN Filter(favs, w) ELSE Append(favs, Entry(w, def))

\* a removal of the first matching entry only
RECURSIVE RemovedFavorites_First(_, _)
RemovedFavorites_First(favs, w) ==
    IF favs = <<>> THEN <<>>
    ELSE IF Head(favs).word = w THEN Tail(favs)
    ELSE <<Head(favs)>> \o RemovedFavorites_First(Tail(favs), w)

\* newFavorites of removeFavorite(word)
RemovedFavorites(favs, w) == Filter(favs, w)

\* a write of the collection the handler found, not of newFavorites
SetItem_Stale(newFavorites) == Item(JSONstringify(favorites))

\* setItem('favorites', JSON.stringify(newFavorites))
SetItem(newFavorites) == Item(JSONstringify(newFavorites))

\* the star button of the definition card: toggleFavorite(definition.word, definition)
ToggleFavorite ==
    /\ mounted
    /\ definition.kind = "doc"
    /\ LET newFavorites == ToggledFavorites(favorites, definition.word, definition)
       IN /\ favorites' = newFavorites
          /\ storage' = SetItem(newFavorites)
    /\ last' = LastMutation("toggleFavorite", definition.word, favorites, last)
    /\ UNCHANGED <<theme, lineage, mounted, word, definition, error, loading, requests>>

\* a removal that closes the definition card too
RemoveFavorite_ClearsCard(i) ==
    /\ mounted
    /\ LET newFavorites == RemovedFavorites(favorites, favorites[i].word)
       IN /\ favorites' = newFavorites
          /\ storage' = SetItem(newFavorites)
    /\ definition' = NullDefinition
    /\ last' = LastMutation("removeFavorite", favorites[i].word, favorites, last)
    /\ UNCHANGED <<theme, lineage, mounted, word, error, loading, requests>>

\* the trash button of the i-th favorite: removeFavorite(fav.word)
RemoveFavorite(i) ==
    /\ mounted
    /\ LET newFavorites == RemovedFavorites(favorites, favorites[i].word)
       IN /\ favorites' = newFavorites
          /\ storage' = SetItem(newFavorites)
    /\ last' = LastMutation("removeFavorite", favorites[i].word, favorites, last)
    /\ UNCHANGED <<theme, lineage, mounted, word, definition, error, loading, requests>>

\* the render of the definition card reads definition.phonetics[0]: it
\* throws on a document without phonetics
RenderThrows(def) == def.kind = "doc" /\ def.body = NoPhonetics

\* the component after the render of definition def: an exception in render
\* unmounts the tree, there is no error boundary
Rendered(def) == mounted' = ~RenderThrows(def)

\* a link that fills the input only
GoToFavorite_WordOnly(i) ==
    /\ mounted
    /\ word' = favorites[i].word
    /\ last' = [Last("goToFavorite") EXCEPT !.arg = favorites[i].word,
                                             !.def = favorites[i].definition,
                                             !.before = favorites,
                                             !.stored = storage]
    /\ UNCHANGED <<theme, lineage, mounted, definition, error, loading, favorites,
                   storage, requests>>

\* the link of the i-th favorite: setWord(fav.word); setDefinition(fav.definition)
GoToFavorite(i) ==
    /\ mounted
    /\ word' = favorites[i].word
    /\ definition' = favorites[i].definition
    /\ Rendered(definition')
    /\ last' = [Last("goToFavorite") EXCEPT !.arg = favorites[i].word,
                                             !.def = favorites[i].definition,
                                             !.before = favorites,
                                             !.stored = storage]
    /\ UNCHANGED <<theme, lineage, error, loading, favorites, storage, requests>>

\* ----------------------------------------------------- lookup controller

\* the input's onChange: setWord(e.target.value)
SetWord(q) ==
    /\ mounted
    /\ word # q
    /\ word' = q
    /\ last' = Last("setWord")
    /\ UNCHANGED <<theme, lineage, mounted, definition, error, loading, favorites,
                   storage, requests>>

\* !word, without the trim
IsEmptyQuery_NoTrim(q) == q = <<>>

\* !word.trim()
IsEmptyQuery(q) == Trim(q) = <<>>

\* the outstanding requests, once another lookup is dispatched
Older(reqs) == [j \in 1..Len(reqs) |-> [reqs[j] EXCEPT !.newest = FALSE]]

\* searchWord up to its await fetch(...)
SearchWord ==
    /\ mounted
    /\ last' = LastLookup("searchWord")
    /\ IF IsEmptyQuery(word)
       THEN /\ error' = EmptyQueryError
            /\ UNCHANGED <<loading, definition, requests>>
       ELSE /\ Len(requests) < MaxInFlight
            /\ loading' = TRUE
            /\ error' = NoError
            /\ definition' = NullDefinition
            /\ requests' = Append(Older(requests), Request("fetch"))
    /\ UNCHANGED <<theme, lineage, mounted, word, favorites, storage>>

\* <Button onClick={searchWord} disabled={loading}>
ClickSearch == ~loading /\ SearchWord

\* onKeyPress={e => e.key === 'Enter' && searchWord()}
PressEnter == SearchWord

RemoveAt(s, i) == SubSeq(s, 1, i - 1) \o SubSeq(s, i + 1, Len(s))

\* a finally that leaves the pending flag as it is
Finally_KeepLoading(i) ==
    /\ UNCHANGED loading
    /\ word' = IF lineage = "sessionStorage" THEN <<>> ELSE word
    /\ requests' = RemoveAt(requests, i)

\* a finally that leaves the input as it is, in both lineages
Finally_KeepWord(i) ==
    /\ loading' = FALSE
    /\ UNCHANGED word
    /\ requests' = RemoveAt(requests, i)

\* finally { setLoading(false) }, and setWord('') in the sessionStorage lineage
Finally(i) ==
    /\ loading' = FALSE
    /\ word' = IF lineage = "sessionStorage" THEN <<>> ELSE word
    /\ requests' = RemoveAt(requests, i)

\* the continuations of searchWord run while the component is mounted: a
\* state update of an unmounted component is dropped

\* fetch resolves with a response; response.json() starts reading its body
FetchResolve(i) ==
    /\ mounted
    /\ requests[i].pc = "fetch"
    /\ requests' = [requests EXCEPT ![i].pc = "json"]
    /\ last' = LastLookup("fetchResolve")
    /\ UNCHANGED <<theme, lineage, mounted, word, definition, error, loading, favorites,
                   storage>>

\* catch (err) { setError(`An error occurred: ${err.message}`) }
Catch(msg) == error' = TransportError(msg)

\* fetch rejects
FetchReject(i, msg) ==
    /\ mounted
    /\ requests[i].pc = "fetch"
    /\ Catch(msg)
    /\ Finally(i)
    /\ last' = [LastCompletion("fetchReject", i) EXCEPT !.msg = msg]
    /\ UNCHANGED <<theme, lineage, mounted, definition, favorites, storage>>

\* data[0]
ElementZero(data) == IF Len(data) > 0 THEN data[1] ELSE UndefinedDefinition

\* response.json() resolves with data, of a response whose status makes
\* response.ok the value ok:
\* if (response.ok) setDefinition(data[0]) else setError('Word not found')
JsonResolve(i, ok, data) ==
    /\ mounted
    /\ requests[i].pc = "json"
    /\ IF ok
       THEN definition' = ElementZero(data) /\ UNCHANGED error
       ELSE error' = NotFoundError /\ UNCHANGED definition
    /\ Rendered(definition')
    /\ Finally(i)
    /\ last' = [LastCompletion("jsonResolve", i) EXCEPT !.ok = ok, !.data = data]
    /\ UNCHANGED <<theme, lineage, favorites, storage>>

\* response.json() rejects (the body is not JSON), whatever the status
JsonReject(i, ok, msg) ==
    /\ mounted
    /\ requests[i].pc = "json"
    /\ Catch(msg)
    /\ Finally(i)
    /\ last' = [LastCompletion("jsonReject", i) EXCEPT !.ok = ok, !.msg = msg]
    /\ UNCHANGED <<theme, lineage, mounted, definition, favorites, storage>>

Next ==
    \/ Mount
    \/ ToggleFavorite
    \/ \E i \in 1..Len(favorites) : RemoveFavorite(i)
    \/ \E i \in 1..Len(favorites) : GoToFavorite(i)
    \/ \E q \in Queries : SetWord(q)
    \/ ClickSearch
    \/ PressEnter
    \/ \E i \in 1..Len(requests) : FetchResolve(i)
    \/ \E i \in 1..Len(requests), msg \in NetworkMessages : FetchReject(i, msg)
    \/ \E i \in 1..Len(requests), ok \in BOOLEAN :
           \E data \in BodiesOf(ok) : JsonResolve(i, ok, data)
    \/ \E i \in 1..Len(requests), ok \in BOOLEAN, msg \in ParseMessages : JsonReject(i, ok, msg)

Spec == Init /\ [][Next]_vars

\* ----------------------------------------- a stored entry without phonetics

\* the startup state with an array stored whose document has no phonetics
InitShape ==
    /\ lineage \in Lineages
    /\ mounted = FALSE
    /\ word = <<>>
    /\ definition = NullDefinition
    /\ error = NoError
    /\ loading = FALSE
    /\ favorites = <<>>
    /\ storage \in {Item(JSONstringify(a)) : a \in ShapelessArrays}
    /\ requests = <<>>
    /\ theme = "system"
    /\ last = Last("init")

SpecShape == InitShape /\ [][Next]_vars

\* ------------------------------------------------------------ theme toggle

Themes == {"light", "dark"}

\* the other of the two themes
OtherTheme_Same(t) == t

OtherTheme(t) == IF t = "light" THEN "dark" ELSE "light"

\* the theme switch: setTheme of the other theme; with the provider's
\* default 'system' the resolved theme is either of the two
ToggleTheme ==
    /\ mounted
    /\ \E t \in (IF theme \in Themes THEN {theme} ELSE Themes) : theme' = OtherTheme(t)
    /\ last' = [Last("toggleTheme") EXCEPT !.arg = <<theme>>, !.lookup = LookupState,
                                            !.before = favorites, !.stored = storage]
    /\ UNCHANGED <<lineage, mounted, word, definition, error, loading, favorites,
                   storage, requests>>

\* the arrays found persisted at startup when the theme is followed
ThemeStorage == {NoItem, Item(JSONstringify(<<Entry(<<"a">>, Doc(<<"a">>, <<"x">>))>>))}

InitTheme ==
    /\ lineage \in Lineages
    /\ mounted = FALSE
    /\ word = <<>>
    /\ definition = NullDefinition
    /\ error = NoError
    /\ loading = FALSE
    /\ favorites = <<>>
    /\ storage \in ThemeStorage
    /\ requests = <<>>
    /\ theme = "system"
    /\ last = Last("init")

NextTheme == Next \/ ToggleTheme

SpecTheme == InitTheme /\ [][NextTheme]_vars

\* ------------------------------------------------------------ properties

\* every character of q is whitespace
AllBlank(q) == \A i \in 1..Len(q) : q[i] \in WhiteSpace

\* some entry of favs is for word w
HasWord(favs, w) == w \in {favs[i].word : i \in 1..Len(favs)}

\* the entries of favs for words other than w, in their order
Others(favs, w) == SelectSeq(favs, LAMBDA e : e.word # w)

\* C1: searchWord on a query that is empty or only whitespace sets the error
\* to 'Please enter a word to search' and starts no request: the number of
\* outstanding requests is the one it found.
C1_EmptyQueryRejectedLocally ==
    (last.op = "searchWord" /\ AllBlank(word)) =>
        (error = EmptyQueryError /\ Len(requests) = last.nreq)

\* a whitespace-only query was submitted while a lookup was pending
C1_Witness ==
    /\ last.op = "searchWord"
    /\ word = <<" ">>
    /\ error = EmptyQueryError
    /\ loading
    /\ Len(requests) = 1

\* C2: when a lookup's response has a 2xx status and its body is read, the
\* definition is element 0 of the returned array and the error is empty.
C2_SuccessSetsResultAndNoError ==
    (last.op = "jsonResolve" /\ last.ok) =>
        (definition = ElementZero(last.data) /\ error = NoError)

\* C3: when a lookup's response has a non-2xx status, the error is 'Word not
\* found' and the definition is null once the lookup has completed, whatever
\* the body is (JSON or not).
C3_NonOkIsNotFound ==
    (last.op \in {"jsonResolve", "jsonReject"} /\ ~last.ok) =>
        (error = NotFoundError /\ definition = NullDefinition)

\* C4: when a lookup fails with a network or JSON-parsing exception, the
\* error is 'An error occurred: <message>' and the definition is null once
\* the lookup has completed.
C4_ExceptionIsTransport ==
    (last.op \in {"fetchReject", "jsonReject"}) =>
        (error = TransportError(last.msg) /\ definition = NullDefinition)

\* C5: toggleFavorite(word, definition) removes the entries for word when
\* there is one (an exact, case-sensitive match) and otherwise appends
\* {word, definition} as the last element; the other entries keep their
\* content and order.
C5_ToggleRemovesOrAppends ==
    last.op = "toggleFavorite" =>
        IF HasWord(last.before, last.arg)
        THEN favorites = Others(last.before, last.arg)
        ELSE favorites = Append(last.before, Entry(last.arg, definition))

\* 'A' was appended to a collection that holds 'a'
C5_Witness ==
    /\ last.op = "toggleFavorite"
    /\ last.arg = <<"A">>
    /\ HasWord(last.before, <<"a">>)
    /\ ~HasWord(last.before, <<"A">>)
    /\ Len(favorites) = Len(last.before) + 1

\* C6, as stated: two toggleFavorite calls in a row with the same non-empty
\* word and definition yield the collection the first one found, also when
\* the word was a favorite before the first call.
C6_ToggleTwiceRestores ==
    (last.op = "toggleFavorite" /\ last.twice /\ last.arg # <<>>) =>
        favorites = last.orig

\* C6, amended: two toggleFavorite calls in a row with the same word and
\* definition d yield the collection the first one found when the word was
\* not a favorite before the first call; when it was, they yield the other
\* entries in their order followed by the one entry {word, d}.
C6_ToggleTwiceAmended ==
    (last.op = "toggleFavorite" /\ last.twice) =>
        IF HasWord(last.orig, last.arg)
        THEN favorites = Append(Others(last.orig, last.arg), Entry(last.arg, definition))
        ELSE favorites = last.orig

\* a favorite that was not the last entry was toggled twice
C6_Witness ==
    /\ last.op = "toggleFavorite"
    /\ last.twice
    /\ Len(last.orig) = 2
    /\ last.orig[1].word = last.arg
    /\ last.orig[2].word # last.arg

\* C7: in every reachable state no two entries of the favorites collection
\* share the same word.
C7_NoTwoEntriesShareAWord ==
    \A i, j \in 1..Len(favorites) : i # j => favorites[i].word # favorites[j].word

\* C8: after toggleFavorite or removeFavorite the value stored under
\* 'favorites' is the JSON serialization of the in-memory collection, and
\* once the startup load has run the stored value reads back as the
\* in-memory collection.
C8_StorageMirrorsFavorites ==
    /\ last.op \in {"toggleFavorite", "removeFavorite"} =>
           storage = Item(JSONstringify(favorites))
    /\ mounted => JSONparse(GetItemOrEmptyArray(storage)) = favorites

\* one of two favorites was removed and the stored value holds the other
C8_Witness ==
    /\ last.op = "removeFavorite"
    /\ Len(last.before) = 2
    /\ Len(favorites) = 1
    /\ storage = Item(JSONstringify(favorites))

\* C9: removeFavorite(word) removes every entry for word and nothing else:
\* word is not a favorite afterwards, the persisted collection holds no
\* entry for it, the other entries keep their order, and after a
\* toggleFavorite that added word it gives back the collection that one
\* found.
C9_RemoveFiltersWord ==
    last.op = "removeFavorite" =>
        /\ favorites = Others(last.before, last.arg)
        /\ ~HasWord(favorites, last.arg)
        /\ storage.present
        /\ ~HasWord(JSONparse(storage.text), last.arg)
        /\ (last.twice /\ ~HasWord(last.orig, last.arg)) => favorites = last.orig

\* a word was added by toggleFavorite to a non-empty collection, then removed
C9_Witness ==
    /\ last.op = "removeFavorite"
    /\ last.twice
    /\ ~HasWord(last.orig, last.arg)
    /\ Len(last.orig) >= 1
    /\ favorites = last.orig

\* C10: the startup load leaves the collection empty when nothing is stored
\* under 'favorites', and equal to the stored array, entry by entry and in
\* its order, when a serialized array is stored.
C10_LoadEqualsStoredArray ==
    last.op = "mount" =>
        /\ ~storage.present => favorites = <<>>
        /\ \A a \in StoredArrays :
               storage = Item(JSONstringify(a)) => favorites = a

\* a stored array of two entries was loaded
C10_Witness ==
    /\ last.op = "mount"
    /\ storage.present
    /\ Len(favorites) = 2
    /\ favorites[1] # favorites[2]

\* the steps at which a dispatched lookup completes
Completions == {"fetchReject", "jsonResolve", "jsonReject"}

\* the steps of searchWord
LookupSteps == {"searchWord", "fetchResolve"} \cup Completions

\* C11: at most one lookup is in flight at any time: while a request is
\* outstanding, no call of searchWord, from the Search button or from the
\* Enter key, dispatches another one.
C11_AtMostOneLookupInFlight ==
    /\ Len(requests) <= 1
    /\ (last.op = "searchWord" /\ last.nreq >= 1) => Len(requests) = last.nreq

\* C12: at the step at which a dispatched lookup's request resolves or
\* rejects, with a 2xx body, a non-2xx status or an exception, the pending
\* flag is false; and the pending flag is true only while some request has
\* neither resolved nor rejected.
C12_CompletionClearsLoading ==
    /\ last.op \in Completions => ~loading
    /\ loading => requests # <<>>

\* the only outstanding lookup ended in an exception of response.json()
C12_Witness ==
    /\ last.op = "jsonReject"
    /\ last.nreq = 1
    /\ ~loading
    /\ requests = <<>>

\* C13: in the sessionStorage lineage the query is '' at the step at which a
\* dispatched lookup completes, whether it succeeded or failed.
C13_SessionLineageClearsQuery ==
    (lineage = "sessionStorage" /\ last.op \in Completions) => word = <<>>

\* in the sessionStorage lineage a lookup ended with 'Word not found'
C13_Witness ==
    /\ lineage = "sessionStorage"
    /\ last.op = "jsonResolve"
    /\ ~last.ok
    /\ error = NotFoundError
    /\ word = <<>>

\* the component takes input: the field accepts a query, searchWord can be
\* called (a dispatch within the model's bound on outstanding requests),
\* every favorite can be removed and opened, and the card shown can be
\* toggled
Interactive ==
    /\ ENABLED (\E q \in Queries : SetWord(q))
    /\ (IsEmptyQuery(word) \/ Len(requests) < MaxInFlight) => ENABLED PressEnter
    /\ \A i \in 1..Len(favorites) : ENABLED RemoveFavorite(i) /\ ENABLED GoToFavorite(i)
    /\ definition.kind = "doc" => ENABLED ToggleFavorite

\* C14: no error is fatal: in every state that shows the error of a failed
\* lookup (empty query, not found, exception) the component still takes
\* input: a lookup can be dispatched and the favorites can be toggled,
\* removed and opened.
C14_NoErrorIsFatal ==
    error # NoError => Interactive

\* C15: the link of a favorite sets the query to the entry's word and the
\* definition to the entry's stored definition, and leaves the favorites
\* collection and the persisted value as they were.
C15_GoToShowsStoredEntry ==
    last.op = "goToFavorite" =>
        /\ word = last.arg
        /\ definition = last.def
        /\ \E i \in 1..Len(favorites) : favorites[i] = Entry(last.arg, last.def)
        /\ favorites = last.before
        /\ storage = last.stored

\* a favorite was opened over the card of another word's lookup
C15_Witness ==
    /\ last.op = "goToFavorite"
    /\ Len(favorites) = 2
    /\ word = <<"a">>
    /\ definition.kind = "doc"
    /\ favorites[1].word = <<"A">>
    /\ error # NoError

\* C16: a click on the theme switch sets the other of the two themes, dark
\* when the theme was light and light when it was dark, and leaves the
\* query, the pending flag, the error, the definition, the favorites and the
\* persisted value as they were.
C16_ThemeToggleTouchesOnlyTheme ==
    last.op = "toggleTheme" =>
        /\ last.arg = <<"light">> => theme = "dark"
        /\ last.arg = <<"dark">> => theme = "light"
        /\ LookupState = last.lookup
        /\ favorites = last.before
        /\ storage = last.stored

\* the theme was switched from dark to light while a lookup was pending and
\* a favorite was stored
C16_Witness ==
    /\ last.op = "toggleTheme"
    /\ last.arg = <<"dark">>
    /\ theme = "light"
    /\ loading
    /\ favorites # <<>>

\* C17: right after a dispatch the pending flag is true, the error is '' and
\* the definition is null; and a lookup whose 2xx completion sets a
\* definition is the latest one dispatched, so no definition of an earlier
\* lookup is held while a later lookup's request is outstanding.
C17_DispatchDiscardsPreviousResult ==
    /\ (last.op = "searchWord" /\ Len(requests) > last.nreq) =>
           (loading /\ error = NoError /\ definition = NullDefinition)
    /\ (last.op = "jsonResolve" /\ last.ok /\ definition.kind = "doc") =>
           last.pos = last.nreq

\* C18: in every state with no lookup pending, the error is '' or the
\* definition is null.
C18_ErrorAndDefinitionExclusive ==
    (requests = <<>> /\ ~loading) => ~(error # NoError /\ definition.kind = "doc")

\* C19: when a completion leaves no request outstanding, the lookup that
\* completed is the most recently dispatched one.
C19_LastDispatchedWins ==
    (last.op \in Completions /\ requests = <<>>) => last.newest

\* C20: no step of searchWord (a call with any query, a response, a
\* completion with any outcome) changes the favorites collection or the
\* persisted value, and toggleFavorite and removeFavorite change none of
\* the query, the pending flag, the error and the definition.
C20_LookupAndFavoritesIndependent ==
    /\ last.op \in LookupSteps => (favorites = last.before /\ storage = last.stored)
    /\ last.op \in {"toggleFavorite", "removeFavorite"} => LookupState = last.lookup

\* a favorite was removed while a lookup was pending and a card was shown
C20_Witness ==
    /\ last.op = "removeFavorite"
    /\ loading
    /\ requests # <<>>
    /\ definition.kind = "doc"
    /\ Len(last.before) > Len(favorites)

====
